---- MODULE Spec2Model ----
(***************************************************************************)
(* Model of JClient (src/src/lib.rs): the Gateway `request`, the decoders  *)
(* built on it, the task handlers and the orchestrator `run`.              *)
(*                                                                         *)
(* The remote service is the environment: every request draws one wire     *)
(* outcome (the send fails, the body is not JSON, or a JSON object with or *)
(* without a `code` field and with or without the payload the caller       *)
(* decodes).  `events` is the trace of what the current step of run() did  *)
(* (network calls, sleeps, clock readings, advisory log lines); it is      *)
(* started afresh by the first action of each step, and `step` names the   *)
(* step it belongs to.  Log lines carry no state and are not modelled,     *)
(* except the advisory and skip lines that later properties read; the      *)
(* arithmetic inside log arguments (evaluated only when the log level is   *)
(* enabled) is not modelled either.  A catalog entry is replaced by Moved  *)
(* once the run has passed the last place that reads it.                   *)
(***************************************************************************)
EXTENDS Integers, Sequences, FiniteSets, TLC

\* ---------------------------------------------------------------- bounds
MaxWater == 2
MaxAds == 2
MaxFriends == 2
MaxThemes == 2
MaxFriendQuota == 2
MaxSignCard == 4
MaxDoubleCard == 1

\* ------------------------------------------------------ program constants
DuckAttempts == 10
SignCardUse == 3
DoubleCardEnergy == 100
WaterPace == 1
TreasurePace == 1
FriendPace == 1
SignCardPace == 2
DuckPace == 2
ThreeHours == 3 * 60 * 60 * 1000
MsPerSec == 1000

\* ------------------------------------------------------------- payloads
NoData == [k |-> "none"]
Moved == [k |-> "moved"]

\* farmUserPro (JdFarmInfo) decodes or not; canPop sits beside it
FarmDatas ==
  {[k |-> "farm", canPop |-> p, pro_ok |-> TRUE, total_energy |-> e] :
      p \in BOOLEAN, e \in {DoubleCardEnergy - 1, DoubleCardEnergy}}
  \cup {[k |-> "farm", canPop |-> p, pro_ok |-> FALSE, total_energy |-> 0] : p \in BOOLEAN}

CardDatas == [k : {"card"}, double_card : 0..MaxDoubleCard, sign_card : 0..MaxSignCard]

AwardDatas == [k : {"award"}, canPop : BOOLEAN]

\* BrowseTaskItem: the advert id is the item's position, its wait time too
AdItem(id, fin) ==
  [advert_id |-> id, limit |-> 1, had_finished_times |-> fin, time |-> id]

AdLists ==
  UNION {{[i \in 1..n |-> AdItem(i, fs[i])] : fs \in [1..n -> 0..1]} : n \in 0..MaxAds}

AllFinished(n) == [i \in 1..n |-> AdItem(i, 1)]

\* An entry reported done (f) carries its completed counters.
FlagTasks == [f : BOOLEAN]

TotalWaterTasks ==
  {[f |-> FALSE, total_water_task_limit |-> MaxWater, total_water_task_times |-> t] :
      t \in 0..(MaxWater + 1)}
  \cup {[f |-> TRUE, total_water_task_limit |-> MaxWater, total_water_task_times |-> MaxWater]}

WaterFriendTasks ==
  {[f |-> FALSE, water_friend_max |-> MaxFriendQuota, water_friend_count_key |-> c] :
      c \in 0..(MaxFriendQuota + 1)}
  \cup {[f |-> TRUE, water_friend_max |-> MaxFriendQuota,
         water_friend_count_key |-> MaxFriendQuota]}

BrowseTasks ==
  {[f |-> FALSE, user_browse_task_ads |-> l] : l \in AdLists}
  \cup {[f |-> TRUE, user_browse_task_ads |-> AllFinished(MaxAds)]}

\* the route tokens the catalog may supply
Lines == {7, 8}

TreasureBoxTasks == [f : BOOLEAN, line : Lines]

\* last_time in milliseconds: on a whole second, and 700 ms after one
LastTimes == {0, 700}

WaterRainTasks ==
  {[f |-> FALSE, last_time |-> t] : t \in LastTimes} \cup {[f |-> TRUE, last_time |-> 0]}

TaskInfos ==
  [sign_init : FlagTasks,
   first_water_init : FlagTasks,
   total_water_task_init : TotalWaterTasks,
   water_friend_task_init : WaterFriendTasks,
   got_browse_task_ad_init : BrowseTasks,
   treasure_box_init : TreasureBoxTasks,
   water_rain_init : WaterRainTasks,
   got_three_meal_init : FlagTasks]

NoTaskInfo ==
  [sign_init |-> Moved, first_water_init |-> Moved, total_water_task_init |-> Moved,
   water_friend_task_init |-> Moved, got_browse_task_ad_init |-> Moved,
   treasure_box_init |-> Moved, water_rain_init |-> Moved, got_three_meal_init |-> Moved]

AllDoneInfo ==
  [sign_init |-> [f |-> TRUE], first_water_init |-> [f |-> TRUE],
   total_water_task_init |->
     [f |-> TRUE, total_water_task_limit |-> MaxWater, total_water_task_times |-> MaxWater],
   water_friend_task_init |->
     [f |-> TRUE, water_friend_max |-> MaxFriendQuota,
      water_friend_count_key |-> MaxFriendQuota],
   got_browse_task_ad_init |-> [f |-> TRUE, user_browse_task_ads |-> AllFinished(MaxAds)],
   treasure_box_init |-> [f |-> TRUE, line |-> 7],
   water_rain_init |-> [f |-> TRUE, last_time |-> 0],
   got_three_meal_init |-> [f |-> TRUE]]

TaskDatas == {[k |-> "task", info |-> ti] : ti \in TaskInfos}

\* FollowTask: the id is the entry's position
FollowTasks(n) ==
  {[i \in 1..n |-> [id |-> i, had_got |-> g[i], had_follow |-> h[i]]] :
      g \in [1..n -> BOOLEAN], h \in [1..n -> BOOLEAN]}

ClockDatas ==
  {[k |-> "clock", today_signed |-> s, themes |-> th] :
      s \in BOOLEAN, th \in UNION {FollowTasks(n) : n \in 0..MaxThemes}}

\* FriendInfo: the share code is the friend's position
FriendLists ==
  UNION {{[j \in 1..n |-> [share_code |-> j, friend_state |-> st[j]]] : st \in [1..n -> 0..1]} :
           n \in 0..MaxFriends}

FriendDatas == {[k |-> "friends", friends |-> l] : l \in FriendLists}

\* ------------------------------------------------------------- the wire
\* `code` of a JSON body: a string, a number ("num:0"), or no such field
JsonCodes == {"0", "3", "10", "num:0", "absent"}

\* Outcomes of one POST: D0 are the payloads a body with code "0" may carry,
\* Dx those of a body with another (or no) code.
Wires(D0, Dx) ==
  {[t |-> "send_fail", code |-> "", data |-> NoData],
   [t |-> "undecodable", code |-> "", data |-> NoData]}
  \cup {[t |-> "json", code |-> "0", data |-> d] : d \in D0 \cup {NoData}}
  \cup {[t |-> "json", code |-> c, data |-> d] :
          c \in JsonCodes \ {"0"}, d \in Dx \cup {NoData}}

AnyWire == Wires({}, {})
NoWire == [t |-> "none", code |-> "", data |-> NoData]

\* ----------------------------------------------------------- Result<T>
NoEnv == [code |-> "", data |-> NoData]
Ok(env) == [ok |-> TRUE, env |-> env]
Err == [ok |-> FALSE, env |-> NoEnv]
NoRes == [ok |-> FALSE, env |-> [code |-> "-", data |-> NoData]]

\* ------------------------------------------------------------- Gateway
\* a Gateway that hands on a body without `code` as it came
request_unwrapped(w) ==
  IF w.t = "send_fail" THEN Err
  ELSE IF w.t = "undecodable" THEN Ok([code |-> "999", data |-> [k |-> "message"]])
  ELSE Ok([code |-> w.code, data |-> w.data])

\* JClient::request: `.send().await?` returns the send error to the caller;
\* only the body decode error is mapped to the "999" envelope.
request(w) ==
  IF w.t = "send_fail" THEN Err
  ELSE IF w.t = "undecodable" THEN Ok([code |-> "999", data |-> [k |-> "message"]])
  ELSE IF w.code = "absent" THEN Ok([code |-> "888", data |-> NoData])
  ELSE Ok([code |-> w.code, data |-> w.data])

\* data["code"].as_str().unwrap_or("999")
code_str(env) == IF env.code = "num:0" THEN "999" ELSE env.code

\* JClient::is_success
is_success(env) == code_str(env) = "0"

\* a reading that always finds the signal
can_pop_blind(env) == TRUE

\* data["todayGotWaterGoalTask"]["canPop"].as_bool().unwrap_or(false)
can_pop(env) == env.data.k \in {"farm", "award"} /\ env.data.canPop

NoFarmInfo == [ok |-> FALSE, total_energy |-> 0]

\* serde_json::from_value(farm_data["farmUserPro"]) in get_farm_info
get_farm_info(r) ==
  IF r.ok /\ r.env.data.k = "farm" /\ r.env.data.pro_ok
    THEN [ok |-> TRUE, total_energy |-> r.env.data.total_energy]
    ELSE NoFarmInfo

\* JClient::get_card_info applied to the result of its request
get_card_info(r) ==
  IF r.ok /\ r.env.data.k = "card"
    THEN [ok |-> TRUE, double_card |-> r.env.data.double_card,
          sign_card |-> r.env.data.sign_card]
    ELSE [ok |-> FALSE, double_card |-> 0, sign_card |-> 0]

\* JClient::get_task_info applied to the result of its request
get_task_info(r) ==
  IF r.ok /\ is_success(r.env) /\ r.env.data.k = "task"
    THEN [ok |-> TRUE, info |-> r.env.data.info]
    ELSE [ok |-> FALSE, info |-> NoTaskInfo]

NoClockIn == [today_signed |-> TRUE, themes |-> <<>>]

\* JClient::get_clock_in_task(None) applied to the result of its request
get_clock_in_task(r) ==
  IF r.ok /\ is_success(r.env) /\ r.env.data.k = "clock"
    THEN [ok |-> TRUE,
          task |-> [today_signed |-> r.env.data.today_signed, themes |-> r.env.data.themes]]
    ELSE [ok |-> FALSE, task |-> NoClockIn]

\* --------------------------------------------------------------- events
Call(fn, id, n) == [e |-> "call", fn |-> fn, id |-> id, n |-> n]
Sleep(secs) == [e |-> "sleep", fn |-> "", id |-> 0, n |-> secs]
Clock(ms) == [e |-> "clock", fn |-> "", id |-> 0, n |-> ms]
Log(msg) == [e |-> "log", fn |-> msg, id |-> 0, n |-> 0]

PopCall == Call("gotWaterGoalTaskForFarm", 0, 3)
FarmCall == Call("initForFarm", 0, 0)
CardCall == Call("myCardInfoForFarm", 0, 0)
WaterCall == Call("waterGoodForFarm", 0, 0)

VARIABLES
  pc,               \* the place run() has reached
  step,             \* the step of run() that `events` belongs to
  events,           \* what that step did so far, in order
  wire,             \* the wire outcome of the last request a handler branches on
  res,              \* what request() returned for it
  result,           \* what run() returned: "running", "Ok" or "Err"
  can_do_pop_task,  \* run's local of that name
  task_info,        \* run's local of that name (the catalog)
  clock_in_task,    \* run's local of that name
  task_list,        \* the items a handler's `for` loop has still to visit
  count,            \* do_water_friend_task's `count`, the sign-in handler's `use_num`
  i,                \* the index of a counting loop
  farm_info,        \* run's local of step 10
  seen              \* what the run did and met earlier: the outcome of the first card
                    \* fetch, whether step 5 issued the pop-reward claim, whether the
                    \* catalog reported every task done, the watering calls issued

vars == <<pc, step, events, wire, res, result, can_do_pop_task, task_info,
          clock_in_task, task_list, count, i, farm_info, seen>>

Init ==
  /\ pc = "start"
  /\ step = "none"
  /\ events = <<>>
  /\ wire = NoWire
  /\ res = NoRes
  /\ result = "running"
  /\ can_do_pop_task = FALSE
  /\ task_info = NoTaskInfo
  /\ clock_in_task = NoClockIn
  /\ task_list = <<>>
  /\ count = 0
  /\ i = 0
  /\ farm_info = NoFarmInfo
  /\ seen = [card |-> "none", pop |-> FALSE, all_done |-> FALSE, waters |-> 0]

\* ------------------------------------------------- building blocks of run
\* a gate that runs the handler when the flag is set
run_gate_inverted(task) == task.f

\* a gate that runs the handler whatever the flag
run_gate_open(task) == TRUE

\* the catalog gate of run(): `if !task_info.<entry>.f { handler } else { log }`
run_gate(task) == ~task.f

SkipLog == <<Log("skip")>>

\* a handler's error returned from run() with `?`
let_question(r, next) == IF r = "Err" THEN "done" ELSE next

\* run(): `let _ = self.<handler>().await;` drops the handler's Result r and goes on
\* with the next step
let_discard(r, next) == next

\* JClient::do_pop_task: one call, the outcome only logged
do_pop_task == <<PopCall>>

\* the hours at which got_three_meal logs its advisory line
three_meal_blocked(cur_hour) ==
  cur_hour >= 21 \/ cur_hour \in 9..10 \/ cur_hour \in 14..16

\* got_three_meal: `utc_time.with_timezone(&FixedOffset::east(8 * 3600)).hour()`
china_hour(utc_hour) == (utc_hour + 8) % 24

\* a scheduled claim that the blocked windows suppress
got_three_meal_blocking(cur_hour) ==
  IF three_meal_blocked(cur_hour) THEN <<Log("advice")>>
  ELSE <<Call("gotThreeMealForFarm", 0, 0)>>

\* the scheduled claim issuing the watering call of a later step
got_three_meal_waters(cur_hour) == <<WaterCall>>

\* JClient::got_three_meal at local hour cur_hour
got_three_meal(cur_hour) ==
  (IF three_meal_blocked(cur_hour) THEN <<Log("advice")>> ELSE <<>>)
    \o <<Call("gotThreeMealForFarm", 0, 0)>>

\* a request whose error ends the handler: nothing follows a failed one
request_question(r, rest) == IF r.ok THEN rest ELSE <<>>

\* `let _ = self.request(..).await;` in a handler: the result r is dropped and the
\* handler goes on with the rest of its body
request_dropped(r, rest) == rest

\* JClient::do_treasure_box_task: acknowledge (type 1), pace, confirm (type 2, line);
\* w is the wire outcome of the acknowledge call
do_treasure_box_task(task, w) ==
  <<Call("ddnc_getTreasureBoxAward", 0, 1)>>
    \o request_dropped(request(w),
                       <<Sleep(TreasurePace), Call("ddnc_getTreasureBoxAward", task.line, 2)>>)

\* an item at its limit is still browsed
browse_finished_strict(task) == task.had_finished_times > task.limit

\* do_browse_task: `if task.had_finished_times >= task.limit { continue }`
browse_finished(task) == task.had_finished_times >= task.limit

\* do_browse_task: the wait between the start call and the claim call
browse_wait(task) == task.time

\* one iteration of do_browse_task's loop; w is the wire outcome of the claim call
do_browse_item(task, w) ==
  IF browse_finished(task) THEN <<>>
  ELSE <<Call("browseAdTaskForFarm", task.advert_id, 0), Sleep(browse_wait(task)),
         Call("browseAdTaskForFarm", task.advert_id, 1)>>
       \o (IF request(w).ok /\ is_success(request(w).env) /\ can_pop(request(w).env)
             THEN do_pop_task ELSE <<>>)

\* do_water_rain_task: SystemTime::now() ... .as_secs() * 1000
rain_time(now) == (now \div MsPerSec) * MsPerSec

\* not due at exactly three hours either
rain_not_due_inclusive(time, last_time) == time <= last_time + ThreeHours

\* do_water_rain_task: `if time < task.last_time + 3 * 60 * 60 * 1000 { return }`
rain_not_due(time, last_time) == time < last_time + ThreeHours

\* do_water_rain_task: "hongBaoTimes": time % 5 + 50
hong_bao_times(time) == (time % 5) + 50

\* JClient::do_water_rain_task with the system clock at `now` milliseconds
do_water_rain_task(task, now) ==
  <<Clock(now)>>
    \o (IF rain_not_due(rain_time(now), task.last_time)
          THEN <<Log("rain_not_due")>>
          ELSE <<Call("waterRainForFarm", 0, hong_bao_times(rain_time(now)))>>)

\* got_water_task_award(function_id); w is the wire outcome of its request
got_water_task_award(function_id, w) ==
  <<Call(function_id, 0, 0)>>
    \o (IF request(w).ok /\ is_success(request(w).env) /\ can_pop(request(w).env)
          THEN do_pop_task ELSE <<>>)

\* the clock readings the water-rain handler may meet, around last_time + 3 h
NowValues ==
  {2 * 60 * 60 * 1000, 4 * 60 * 60 * 1000}
  \cup {ThreeHours + d : d \in {0 - 1, 0, 300, 699, 700, 999, 1000, 1699, 1700}}

Hours == 0..23

Return(r) == /\ result' = r
             /\ pc' = "done"

Drop(entry) == task_info' = [task_info EXCEPT ![entry] = Moved]

\* ------------------------------------------------------------------ run
\* step 1: get_farm_data
RunGetFarmData ==
  /\ pc = "start"
  /\ \E w \in Wires(FarmDatas, FarmDatas) :
       /\ wire' = w
       /\ res' = request(w)
  /\ step' = "farm"
  /\ events' = <<FarmCall>>
  /\ pc' = "farm_data"
  /\ UNCHANGED <<result, can_do_pop_task, task_info, clock_in_task, task_list, count, i,
                 farm_info, seen>>

\* steps 1-3: the Err arm of get_farm_data, canPop, get_farm_info(Some(farm_data))
RunFarmInfo ==
  /\ pc = "farm_data"
  /\ IF res.ok /\ get_farm_info(res).ok
       THEN /\ can_do_pop_task' = can_pop(res.env)
            /\ pc' = "card_info"
            /\ UNCHANGED result
       ELSE /\ Return("Ok")
            /\ UNCHANGED can_do_pop_task
  /\ wire' = NoWire
  /\ res' = NoRes
  /\ UNCHANGED <<step, events, task_info, clock_in_task, task_list, count, i, farm_info, seen>>

\* step 4: get_card_info, logged either way
RunGetCardInfo ==
  /\ pc = "card_info"
  /\ \E w \in Wires(CardDatas, {}) :
       seen' = [seen EXCEPT !.card = IF get_card_info(request(w)).ok THEN "ok" ELSE "err"]
  /\ step' = "card"
  /\ events' = <<CardCall>>
  /\ pc' = "pop"
  /\ UNCHANGED <<wire, res, result, can_do_pop_task, task_info, clock_in_task, task_list,
                 count, i, farm_info>>

\* step 5: `if can_do_pop_task { let _ = self.do_pop_task().await; }`
RunPopTask ==
  /\ pc = "pop"
  /\ step' = "pop"
  /\ events' = IF can_do_pop_task THEN do_pop_task ELSE <<>>
  /\ seen' = [seen EXCEPT !.pop = can_do_pop_task]
  /\ can_do_pop_task' = FALSE
  /\ pc' = "task_info"
  /\ UNCHANGED <<wire, res, result, task_info, clock_in_task, task_list, count, i, farm_info>>

\* step 6: the request of get_task_info
RunGetTaskInfo ==
  /\ pc = "task_info"
  /\ \E w \in Wires(TaskDatas, {[k |-> "task", info |-> AllDoneInfo]}) :
       /\ wire' = w
       /\ res' = request(w)
  /\ step' = "task_info"
  /\ events' = <<Call("taskInitForFarm", 0, 0)>>
  /\ pc' = "task_info_ret"
  /\ UNCHANGED <<result, can_do_pop_task, task_info, clock_in_task, task_list, count, i,
                 farm_info, seen>>

\* step 6: the match on get_task_info's result
RunTaskInfo ==
  /\ pc = "task_info_ret"
  /\ IF get_task_info(res).ok
       THEN /\ task_info' = get_task_info(res).info
            /\ seen' = [seen EXCEPT !.all_done = (get_task_info(res).info = AllDoneInfo)]
            /\ pc' = "sign_in"
            /\ UNCHANGED result
       ELSE /\ Return("Ok")
            /\ UNCHANGED <<task_info, seen>>
  /\ wire' = NoWire
  /\ res' = NoRes
  /\ UNCHANGED <<step, events, can_do_pop_task, clock_in_task, task_list, count, i, farm_info>>

\* step 7, sign-in: the handler is empty (the remote action was retired)
RunSignIn ==
  /\ pc = "sign_in"
  /\ step' = "sign_in"
  /\ events' = IF run_gate(task_info.sign_init) THEN <<>> ELSE SkipLog
  /\ pc' = "three_meal"
  /\ UNCHANGED <<wire, res, result, can_do_pop_task, task_info, clock_in_task, task_list,
                 count, i, farm_info, seen>>

\* step 7, scheduled claim
RunThreeMeal ==
  /\ pc = "three_meal"
  /\ step' = "three_meal"
  /\ IF run_gate(task_info.got_three_meal_init)
       THEN \E utc_hour \in Hours : events' = got_three_meal(china_hour(utc_hour))
       ELSE events' = SkipLog
  /\ Drop("sign_init")
  /\ pc' = "treasure_box"
  /\ UNCHANGED <<wire, res, result, can_do_pop_task, clock_in_task, task_list, count, i,
                 farm_info, seen>>

\* step 7, promo entry
RunTreasureBox ==
  /\ pc = "treasure_box"
  /\ step' = "treasure_box"
  /\ IF run_gate(task_info.treasure_box_init)
       THEN \E w \in AnyWire :
              /\ events' = do_treasure_box_task(task_info.treasure_box_init, w)
              /\ wire' = w
       ELSE /\ events' = SkipLog
            /\ UNCHANGED wire
  /\ Drop("got_three_meal_init")
  /\ pc' = "browse"
  /\ UNCHANGED <<res, result, can_do_pop_task, clock_in_task, task_list, count, i,
                 farm_info, seen>>

\* step 7, ad browsing: the gate and the start of do_browse_task's loop
RunBrowse ==
  /\ pc = "browse"
  /\ step' = "browse"
  /\ IF run_gate(task_info.got_browse_task_ad_init)
       THEN /\ events' = <<>>
            /\ task_list' = task_info.got_browse_task_ad_init.user_browse_task_ads
            /\ pc' = "browse_loop"
       ELSE /\ events' = SkipLog
            /\ pc' = "water_rain"
            /\ UNCHANGED task_list
  /\ Drop("treasure_box_init")
  /\ wire' = NoWire
  /\ UNCHANGED <<res, result, can_do_pop_task, clock_in_task, count, i, farm_info, seen>>

\* do_browse_task: one pass of `for task in task_list`, or its end
DoBrowseItem ==
  /\ pc = "browse_loop"
  /\ IF task_list = <<>>
       THEN /\ pc' = "water_rain"
            /\ UNCHANGED <<events, task_list, wire>>
       ELSE /\ \E w \in Wires(AwardDatas, {}) :
                 /\ events' = events \o do_browse_item(Head(task_list), w)
                 /\ wire' = IF browse_finished(Head(task_list)) THEN NoWire ELSE w
            /\ task_list' = Tail(task_list)
            /\ UNCHANGED pc
  /\ UNCHANGED <<step, res, result, can_do_pop_task, task_info, clock_in_task, count, i,
                 farm_info, seen>>

\* step 7, water rain
RunWaterRain ==
  /\ pc = "water_rain"
  /\ step' = "water_rain"
  /\ IF run_gate(task_info.water_rain_init)
       THEN \E now \in NowValues : events' = do_water_rain_task(task_info.water_rain_init, now)
       ELSE events' = SkipLog
  /\ Drop("got_browse_task_ad_init")
  /\ wire' = NoWire
  /\ pc' = "water_friend"
  /\ UNCHANGED <<res, result, can_do_pop_task, clock_in_task, task_list, count, i,
                 farm_info, seen>>

\* do_water_friend_task: the friend list, posted outside request(); any failure
\* (send, body, shape) is returned with `?`
friend_list(w) ==
  IF w.t = "json" /\ w.data.k = "friends"
    THEN [ok |-> TRUE, friends |-> w.data.friends]
    ELSE [ok |-> FALSE, friends |-> <<>>]

\* do_water_friend_task: `if task.water_friend_count_key < task.water_friend_max`
friend_quota_left(task) == task.water_friend_count_key < task.water_friend_max

\* a loop that skips no friend
friend_skipped_never(friend) == FALSE

\* do_water_friend_task: `if friend.friend_state == 0 { continue }`
friend_skipped(friend) == friend.friend_state = 0

FriendAwardCall == Call("waterFriendGotAwardForFarm", 0, 0)

\* step 7, water two friends: the gate, the quota test and the friend list
RunWaterFriend ==
  /\ pc = "water_friend"
  /\ step' = "water_friend"
  /\ IF ~run_gate(task_info.water_friend_task_init)
       THEN /\ events' = SkipLog
            /\ pc' = "clock_in"
            /\ UNCHANGED <<task_list, count, wire>>
       ELSE IF ~friend_quota_left(task_info.water_friend_task_init)
         THEN /\ events' = <<>>
              /\ pc' = "clock_in"
              /\ UNCHANGED <<task_list, count, wire>>
         ELSE \E w \in Wires(FriendDatas, {}) :
                /\ events' = <<Call("friendListInitForFarm", 0, 0)>>
                /\ wire' = w
                /\ IF friend_list(w).ok
                     THEN /\ task_list' = friend_list(w).friends
                          /\ count' = task_info.water_friend_task_init.water_friend_max
                                        - task_info.water_friend_task_init.water_friend_count_key
                          /\ pc' = "friend_loop"
                     ELSE /\ pc' = "clock_in"
                          /\ UNCHANGED <<task_list, count>>
  /\ Drop("water_rain_init")
  /\ UNCHANGED <<res, result, can_do_pop_task, clock_in_task, i, farm_info, seen>>

\* do_water_friend_task: one pass of `for friend in friends.friends`; the loop's
\* end, by exhaustion or by `break`, is followed by the aggregate claim call
DoWaterFriend ==
  /\ pc = "friend_loop"
  /\ IF task_list = <<>>
       THEN /\ events' = events \o <<FriendAwardCall>>
            /\ pc' = "clock_in"
            /\ count' = 0
            /\ UNCHANGED task_list
       ELSE IF friend_skipped(Head(task_list))
         THEN /\ task_list' = Tail(task_list)
              /\ UNCHANGED <<events, pc, count>>
         ELSE IF count - 1 = 0
           THEN /\ events' = events
                      \o <<Call("waterFriendForFarm", Head(task_list).share_code, 0),
                           FriendAwardCall>>
                /\ pc' = "clock_in"
                /\ count' = 0
                /\ task_list' = <<>>
           ELSE /\ events' = events
                      \o <<Call("waterFriendForFarm", Head(task_list).share_code, 0),
                           Sleep(FriendPace)>>
                /\ count' = count - 1
                /\ task_list' = Tail(task_list)
                /\ UNCHANGED pc
  /\ UNCHANGED <<step, wire, res, result, can_do_pop_task, task_info, clock_in_task, i,
                 farm_info, seen>>

\* step 8: the request of get_clock_in_task(None)
RunGetClockIn ==
  /\ pc = "clock_in"
  /\ \E w \in Wires(ClockDatas, {}) :
       /\ wire' = w
       /\ res' = request(w)
  /\ step' = "clock_in"
  /\ events' = <<Call("clockInInitForFarm", 0, 0)>>
  /\ Drop("water_friend_task_init")
  /\ pc' = "clock_in_ret"
  /\ UNCHANGED <<result, can_do_pop_task, clock_in_task, task_list, count, i, farm_info, seen>>

\* step 8: `let clock_in_task = self.get_clock_in_task(None).await?;`
RunClockInTask ==
  /\ pc = "clock_in_ret"
  /\ IF get_clock_in_task(res).ok
       THEN /\ clock_in_task' = get_clock_in_task(res).task
            /\ pc' = "clock_in_sign"
            /\ UNCHANGED result
       ELSE /\ Return("Err")
            /\ UNCHANGED clock_in_task
  /\ wire' = NoWire
  /\ res' = NoRes
  /\ UNCHANGED <<step, events, can_do_pop_task, task_info, task_list, count, i, farm_info, seen>>

\* every card of the inventory is used
sign_use_all(card_info) == IF card_info.ok THEN card_info.sign_card ELSE 0

\* do_clock_in_sign_in_task: how many extra-signature cards to use
sign_use_num(card_info) ==
  IF card_info.ok /\ card_info.sign_card > 0
    THEN (IF card_info.sign_card >= SignCardUse THEN SignCardUse ELSE card_info.sign_card)
    ELSE 0

\* JClient::use_card(card_type): 1 is "signCard", 2 is "doubleCard"
use_card(card_type) == <<Call("userMyCardForFarm", card_type, 0)>>

\* a pass of the card loop without its pace
sign_card_pass_unpaced == use_card(1)

\* do_clock_in_sign_in_task: the body of `for _ in 0..use_num`
sign_card_pass == use_card(1) \o <<Sleep(SignCardPace)>>

\* a gate that signs whatever the snapshot says
clock_in_gate_open(task) == TRUE

\* run(): `if !clock_in_task.today_signed { handler } else { log }`
clock_in_gate(task) == ~task.today_signed

\* step 8: the sign-in gate and do_clock_in_sign_in_task up to its card loop; `res`
\* keeps what request() returned for the sign call, `wire` the response of the card
\* fetch
RunClockInSign ==
  /\ pc = "clock_in_sign"
  /\ step' = "clock_in_sign"
  /\ IF ~clock_in_gate(clock_in_task)
       THEN /\ events' = SkipLog
            /\ pc' = "follow"
            /\ UNCHANGED <<count, i, wire, res>>
       ELSE \E w \in AnyWire, wc \in Wires(CardDatas, {}) :
              /\ res' = request(w)
              /\ IF request(w).ok /\ is_success(request(w).env)
                THEN /\ events' = <<Call("clockInForFarm", 0, 1), CardCall>>
                     /\ wire' = wc
                     /\ count' = sign_use_num(get_card_info(request(wc)))
                     /\ i' = 0
                     /\ pc' = "sign_cards"
                ELSE /\ events' = <<Call("clockInForFarm", 0, 1)>>
                     /\ pc' = "follow"
                     /\ UNCHANGED <<count, i, wire>>
  /\ UNCHANGED <<result, can_do_pop_task, task_info, clock_in_task, task_list,
                 farm_info, seen>>

\* do_clock_in_sign_in_task: one pass of `for _ in 0..use_num`, or its end; the
\* outcome of use_card is dropped
DoSignCard ==
  /\ pc = "sign_cards"
  /\ IF i < count
       THEN /\ events' = events \o sign_card_pass
            /\ i' = i + 1
            /\ UNCHANGED <<pc, count, wire>>
       ELSE /\ pc' = "follow"
            /\ i' = 0
            /\ count' = 0
            /\ wire' = NoWire
            /\ UNCHANGED events
  /\ UNCHANGED <<step, res, result, can_do_pop_task, task_info, clock_in_task, task_list,
                 farm_info, seen>>

\* step 8: do_clock_in_follow_task(clock_in_task.themes) starts
RunFollow ==
  /\ pc = "follow"
  /\ step' = "follow"
  /\ events' = <<>>
  /\ task_list' = clock_in_task.themes
  /\ clock_in_task' = NoClockIn
  /\ wire' = NoWire
  /\ res' = NoRes
  /\ pc' = "follow_loop"
  /\ UNCHANGED <<result, can_do_pop_task, task_info, count, i, farm_info, seen>>

\* do_clock_in_follow_task: the calls of one entry (follow if needed, then claim)
follow_calls(task) ==
  IF task.had_got THEN <<>>
  ELSE (IF ~task.had_follow THEN <<Call("clockInFollowForFarm", task.id, 1)>> ELSE <<>>)
       \o <<Call("clockInFollowForFarm", task.id, 2)>>

\* do_clock_in_follow_task: one pass of `for task in tasks`, or its end; the claim
\* call's error is returned with `?`
DoFollowItem ==
  /\ pc = "follow_loop"
  /\ IF task_list = <<>>
       THEN /\ pc' = "click_duck"
            /\ UNCHANGED <<events, task_list, wire>>
       ELSE /\ events' = events \o follow_calls(Head(task_list))
            /\ IF Head(task_list).had_got
                 THEN /\ task_list' = Tail(task_list)
                      /\ UNCHANGED <<pc, wire>>
                 ELSE \E w \in AnyWire :
                        /\ wire' = w
                        /\ IF request(w).ok
                             THEN /\ task_list' = Tail(task_list)
                                  /\ UNCHANGED pc
                             ELSE /\ task_list' = <<>>
                                  /\ pc' = let_discard("Err", "click_duck")
  /\ UNCHANGED <<step, res, result, can_do_pop_task, task_info, clock_in_task, count, i,
                 farm_info, seen>>

\* step 9: click_duck starts
RunClickDuck ==
  /\ pc = "click_duck"
  /\ step' = "click_duck"
  /\ events' = <<>>
  /\ i' = 0
  /\ wire' = NoWire
  /\ pc' = "duck_loop"
  /\ UNCHANGED <<res, result, can_do_pop_task, task_info, clock_in_task, task_list, count,
                 farm_info, seen>>

\* click_duck: `for i in 0..10`
duck_more(n) == n < DuckAttempts

\* the daily-limit code is not looked at
duck_limit_never(env) == FALSE

\* click_duck: `res["code"].as_str().unwrap_or("999") == "10"` in the failure arm
duck_limit_reached(env) == ~is_success(env) /\ code_str(env) = "10"

DuckCall == Call("getFullCollectionReward", 0, 2)

\* click_duck: one pass of the loop, or its end; a request error is returned with `?`
DoClickDuck ==
  /\ pc = "duck_loop"
  /\ IF ~duck_more(i)
       THEN /\ pc' = "double_card"
            /\ wire' = NoWire
            /\ UNCHANGED <<events, i>>
       ELSE \E w \in AnyWire :
              /\ wire' = w
              /\ IF ~request(w).ok \/ duck_limit_reached(request(w).env)
                   THEN /\ events' = events \o <<DuckCall>>
                        /\ pc' = let_discard(IF request(w).ok THEN "Ok" ELSE "Err",
                                              "double_card")
                        /\ UNCHANGED i
                   ELSE /\ events' = events \o <<DuckCall, Sleep(DuckPace)>>
                        /\ i' = i + 1
                        /\ UNCHANGED pc
  /\ UNCHANGED <<step, res, result, can_do_pop_task, task_info, clock_in_task, task_list,
                 count, farm_info, seen>>

\* step 10: the request of get_farm_info(None)
RunDoubleCardFarm ==
  /\ pc = "double_card"
  /\ \E w \in Wires(FarmDatas, FarmDatas) :
       /\ wire' = w
       /\ res' = request(w)
  /\ step' = "double_card"
  /\ events' = <<FarmCall>>
  /\ i' = 0
  /\ pc' = "double_card_farm"
  /\ UNCHANGED <<result, can_do_pop_task, task_info, clock_in_task, task_list, count,
                 farm_info, seen>>

\* step 10: `if let Ok(farm_info) = ...` and the request of get_card_info
RunDoubleCardCard ==
  /\ pc = "double_card_farm"
  /\ IF get_farm_info(res).ok
       THEN /\ farm_info' = get_farm_info(res)
            /\ \E w \in Wires(CardDatas, {}) :
                 /\ wire' = w
                 /\ res' = request(w)
            /\ events' = events \o <<CardCall>>
            /\ pc' = "double_card_card"
       ELSE /\ wire' = NoWire
            /\ res' = NoRes
            /\ pc' = "first_water"
            /\ UNCHANGED <<farm_info, events>>
  /\ UNCHANGED <<step, result, can_do_pop_task, task_info, clock_in_task, task_list, count, i,
                 seen>>

\* a test that a failed card fetch of step 4 switches off
double_card_due_remembered(farm, card) ==
  seen.card = "ok" /\ farm.total_energy >= DoubleCardEnergy /\ card.double_card >= 1

\* a test that does not look at the balance
double_card_due_any(farm, card) == card.double_card >= 1

\* step 10: `farm_info.total_energy >= 100 && card_info.double_card >= 1`
double_card_due(farm, card) ==
  farm.total_energy >= DoubleCardEnergy /\ card.double_card >= 1

\* step 10: `if let Ok(card_info) = ...` and the use of one double-reward card
RunDoubleCardUse ==
  /\ pc = "double_card_card"
  /\ events' = IF get_card_info(res).ok /\ double_card_due(farm_info, get_card_info(res))
                 THEN events \o use_card(2)
                 ELSE events
  /\ wire' = NoWire
  /\ res' = NoRes
  /\ farm_info' = NoFarmInfo
  /\ pc' = "first_water"
  /\ UNCHANGED <<step, result, can_do_pop_task, task_info, clock_in_task, task_list, count, i,
                 seen>>

\* a watering that counts as done whenever its request was answered
water_answered(r) == [ok |-> r.ok, watered |-> r.ok]

\* JClient::water applied to the result of its request: Err, or Ok(is_success)
water(r) == [ok |-> r.ok, watered |-> r.ok /\ is_success(r.env)]

\* step 11: the gate and do_first_water_task's call of water()
RunFirstWater ==
  /\ pc = "first_water"
  /\ step' = "first_water"
  /\ IF run_gate(task_info.first_water_init)
       THEN /\ \E w \in AnyWire :
                 /\ wire' = w
                 /\ res' = request(w)
            /\ events' = <<WaterCall>>
            /\ seen' = [seen EXCEPT !.waters = @ + 1]
            /\ pc' = "first_water_award"
       ELSE /\ events' = SkipLog
            /\ pc' = "total_water"
            /\ UNCHANGED <<wire, res, seen>>
  /\ UNCHANGED <<result, can_do_pop_task, task_info, clock_in_task, task_list, count, i,
                 farm_info>>

\* do_first_water_task: `water().await?`, then the reward claim if it watered
DoFirstWaterAward ==
  /\ pc = "first_water_award"
  /\ IF water(res).ok /\ water(res).watered
       THEN \E w \in Wires(AwardDatas, {}) :
              /\ events' = events \o got_water_task_award("firstWaterTaskForFarm", w)
              /\ wire' = w
       ELSE /\ wire' = NoWire
            /\ UNCHANGED events
  /\ res' = NoRes
  /\ pc' = let_discard(IF water(res).ok THEN "Ok" ELSE "Err", "total_water")
  /\ UNCHANGED <<step, result, can_do_pop_task, task_info, clock_in_task, task_list, count, i,
                 farm_info, seen>>

\* step 12: the gate and the start of do_total_water_task's loop
RunTotalWater ==
  /\ pc = "total_water"
  /\ step' = "total_water"
  /\ IF run_gate(task_info.total_water_task_init)
       THEN /\ events' = <<>>
            /\ i' = task_info.total_water_task_init.total_water_task_times
            /\ pc' = "total_water_loop"
       ELSE /\ events' = SkipLog
            /\ pc' = "final"
            /\ UNCHANGED i
  /\ Drop("first_water_init")
  /\ wire' = NoWire
  /\ UNCHANGED <<res, result, can_do_pop_task, clock_in_task, task_list, count,
                 farm_info, seen>>

\* do_total_water_task: one pass of `for _ in times..limit` (`water().await?`, then
\* the pace), or, after the loop, got_water_task_award
DoTotalWater ==
  /\ pc = "total_water_loop"
  /\ IF i < task_info.total_water_task_init.total_water_task_limit
       THEN \E w \in AnyWire :
              /\ wire' = w
              /\ IF water(request(w)).ok
                   THEN /\ events' = events \o <<WaterCall, Sleep(WaterPace)>>
                        /\ i' = i + 1
                        /\ UNCHANGED pc
                   ELSE /\ events' = events \o <<WaterCall>>
                        /\ pc' = let_discard("Err", "final")
                        /\ UNCHANGED i
              /\ seen' = [seen EXCEPT !.waters = @ + 1]
       ELSE /\ \E w \in Wires(AwardDatas, {}) :
                 /\ events' = events \o got_water_task_award("totalWaterTaskForFarm", w)
                 /\ wire' = w
            /\ pc' = "final"
            /\ UNCHANGED <<i, seen>>
  /\ UNCHANGED <<step, res, result, can_do_pop_task, task_info, clock_in_task, task_list,
                 count, farm_info>>

\* steps 13-14: got_stage_award is empty; the final get_farm_info(None); Ok(())
RunFinal ==
  /\ pc = "final"
  /\ step' = "final"
  /\ events' = <<FarmCall>>
  /\ Drop("total_water_task_init")
  /\ wire' = NoWire
  /\ i' = 0
  /\ Return("Ok")
  /\ UNCHANGED <<res, can_do_pop_task, clock_in_task, task_list, count, farm_info, seen>>

Next ==
  \/ RunGetFarmData
  \/ RunFarmInfo
  \/ RunGetCardInfo
  \/ RunPopTask
  \/ RunGetTaskInfo
  \/ RunTaskInfo
  \/ RunSignIn
  \/ RunThreeMeal
  \/ RunTreasureBox
  \/ RunBrowse
  \/ DoBrowseItem
  \/ RunWaterRain
  \/ RunWaterFriend
  \/ DoWaterFriend
  \/ RunGetClockIn
  \/ RunClockInTask
  \/ RunClockInSign
  \/ DoSignCard
  \/ RunFollow
  \/ DoFollowItem
  \/ RunClickDuck
  \/ DoClickDuck
  \/ RunDoubleCardFarm
  \/ RunDoubleCardCard
  \/ RunDoubleCardUse
  \/ RunFirstWater
  \/ DoFirstWaterAward
  \/ RunTotalWater
  \/ DoTotalWater
  \/ RunFinal

Spec == Init /\ [][Next]_vars

\* run() just after `let clock_in_task = self.get_clock_in_task(None).await?;`
\* succeeded: the farm snapshot, the catalog and the clock-in snapshot are in
\* hand, the catalog entries of steps 6-7 are spent, the two watering entries and
\* the clock-in snapshot are whatever the server sent
AfterFetches ==
  /\ pc = "clock_in_sign"
  /\ step = "clock_in"
  /\ events = <<Call("clockInInitForFarm", 0, 0)>>
  /\ wire = NoWire
  /\ res = NoRes
  /\ result = "running"
  /\ can_do_pop_task = FALSE
  /\ task_info \in {[NoTaskInfo EXCEPT !.first_water_init = a, !.total_water_task_init = b] :
                      a \in FlagTasks, b \in TotalWaterTasks}
  /\ clock_in_task \in {[today_signed |-> d.today_signed, themes |-> d.themes] :
                          d \in ClockDatas}
  /\ task_list = <<>>
  /\ count = 0
  /\ i = 0
  /\ farm_info = NoFarmInfo
  /\ seen \in [card : {"ok", "err"}, pop : BOOLEAN, all_done : BOOLEAN, waters : {0}]
  /\ (seen.all_done => task_info.first_water_init.f /\ task_info.total_water_task_init.f)

\* the rest of run() from there: the sign-in gate of step 8 to the return of step 14
LateNext ==
  \/ RunClockInSign
  \/ DoSignCard
  \/ RunFollow
  \/ DoFollowItem
  \/ RunClickDuck
  \/ DoClickDuck
  \/ RunDoubleCardFarm
  \/ RunDoubleCardCard
  \/ RunDoubleCardUse
  \/ RunFirstWater
  \/ DoFirstWaterAward
  \/ RunTotalWater
  \/ DoTotalWater
  \/ RunFinal

\* run() is one task driven to completion: every await (a request, bounded by
\* the transport's timeout, or a sleep) returns, so the run keeps taking steps.
\* The specification starts where the three foundational fetches have succeeded.
LateSpec == AfterFetches /\ [][LateNext]_vars /\ WF_vars(LateNext)

\* ------------------------------------------------------------ properties
IsCall(ev) == ev.e = "call"
Calls(evs) == SelectSeq(evs, IsCall)
CallsOf(evs, fn) == SelectSeq(evs, LAMBDA ev : ev.e = "call" /\ ev.fn = fn)
Max0(n) == IF n > 0 THEN n ELSE 0

\* the places where the value request() returned is held in `res`
RequestReturned ==
  pc \in {"farm_data", "task_info_ret", "clock_in_ret", "double_card_farm",
          "double_card_card", "first_water_award"}

\* C1: request() returns, for every wire outcome, Ok with an envelope that has a
\* code, and the "999" envelope when the send failed; it never returns an error.
C1_AlwaysEnvelope ==
  RequestReturned =>
    /\ res.ok
    /\ res.env.code \in {"0", "3", "10", "num:0", "888", "999"}
    /\ (wire.t = "send_fail" => res.env.code = "999")

\* a foundational fetch that failed as the claim lists: the send failed, the body
\* was not JSON, or the envelope's code is not "0"
FetchFailed ==
  /\ pc \in {"farm_data", "task_info_ret", "clock_in_ret"}
  /\ (wire.t \in {"send_fail", "undecodable"} \/ wire.code # "0")

\* C2: when the farm snapshot fetch of step 1, the catalog fetch or the clock-in
\* snapshot fetch failed, the run ends there and issues no further call.
C2_FailedFetchEndsRun ==
  [][/\ FetchFailed => (pc' = "done" /\ events' = events)
     /\ pc = "done" => events' = events]_vars

\* under Spec, the run passes the clock-in fetch only in a state LateSpec starts from
AfterFetchesCovers == pc = "clock_in_sign" => AfterFetches

\* the steps of run(), in the order of the code
RunSteps ==
  <<"none", "farm", "card", "pop", "task_info", "sign_in", "three_meal", "treasure_box",
    "browse", "water_rain", "water_friend", "clock_in", "clock_in_sign", "follow",
    "click_duck", "double_card", "first_water", "total_water", "final">>

\* a step of run() is followed by the next step of the list and by no other
NextStepOnly ==
  step' # step =>
    \E k \in 1..(Len(RunSteps) - 1) : step = RunSteps[k] /\ step' = RunSteps[k + 1]

\* under Spec, over the whole run: no step is left out, and run() returns only
\* where a foundational fetch is matched or after the final snapshot fetch
StepsInOrder ==
  [][/\ NextStepOnly
     /\ (pc # "done" /\ pc' = "done") =>
          pc \in {"farm_data", "task_info_ret", "clock_in_ret", "final"}]_vars

\* C3: once the three foundational fetches have succeeded, the run leaves out none
\* of the later steps (each step is followed by the next one of the list, whatever
\* its calls met), and it eventually issues the final farm snapshot fetch and
\* returns.
C3_RunCompletes ==
  /\ [][NextStepOnly]_vars
  /\ AfterFetches
       ~> (pc = "done" /\ result = "Ok" /\ step = "final" /\ events = <<FarmCall>>)

\* a later handler was cut short by a failed send, and the run went on to step 14
C3_Witness ==
  /\ pc = "final"
  /\ step = "total_water"
  /\ wire.t = "send_fail"
  /\ seen.waters > 0
  /\ events[Len(events)] = WaterCall

\* the catalog entry that gates each gated step
GatedEntry ==
  [sign_in |-> "sign_init", three_meal |-> "got_three_meal_init",
   treasure_box |-> "treasure_box_init", browse |-> "got_browse_task_ad_init",
   water_rain |-> "water_rain_init", water_friend |-> "water_friend_task_init",
   first_water |-> "first_water_init", total_water |-> "total_water_task_init"]

GatedSteps == DOMAIN GatedEntry

TotalAwardCall == Call("totalWaterTaskForFarm", 0, 0)

\* do_total_water_task has returned to run()
TotalWaterRan ==
  /\ pc = "final"
  /\ step = "total_water"
  /\ ~task_info.total_water_task_init.f

\* the calls cs are n watering calls, then one ten-waters claim call, then
\* neither of the two again
WatersThenClaim(cs, n) ==
  /\ Len(cs) >= n + 1
  /\ \A j \in 1..n : cs[j] = WaterCall
  /\ cs[n + 1] = TotalAwardCall
  /\ \A j \in (n + 2)..Len(cs) : cs[j] \notin {WaterCall, TotalAwardCall}

\* C5: do_total_water_task(limit, times) issues exactly max(0, limit - times)
\* watering calls and then exactly one claim call, whatever the watering calls meet.
C5_WatersThenOneClaim ==
  TotalWaterRan =>
    WatersThenClaim(Calls(events),
                    Max0(task_info.total_water_task_init.total_water_task_limit
                           - task_info.total_water_task_init.total_water_task_times))

FetchFns ==
  {"initForFarm", "myCardInfoForFarm", "taskInitForFarm", "clockInInitForFarm",
   "clockInFollowForFarm", "getFullCollectionReward"}

C7_RunWatersLimitMinusTimes ==
  TotalWaterRan =>
    /\ seen.waters = Max0(task_info.total_water_task_init.total_water_task_limit
                            - task_info.total_water_task_init.total_water_task_times)
    /\ WatersThenClaim(Calls(events), seen.waters)

\* do_water_rain_task has returned to run()
WaterRainRan ==
  /\ pc = "water_friend"
  /\ step = "water_rain"
  /\ ~task_info.water_rain_init.f

RainCalls == CallsOf(events, "waterRainForFarm")

BrowseRan ==
  /\ pc = "water_rain"
  /\ step = "browse"
  /\ ~task_info.got_browse_task_ad_init.f

BrowseItems == task_info.got_browse_task_ad_init.user_browse_task_ads

\* the places in evs of the calls made for advert a
CallPlaces(evs, a) == {j \in 1..Len(evs) : IsCall(evs[j]) /\ evs[j].id = a}

\* C9: do_browse_task makes no call for an item at its limit, and for every other
\* item one start call, the item's wait, and one claim call, whatever the calls
\* of earlier items met.
C9_BrowsePerItem ==
  BrowseRan =>
    \A k \in 1..Len(BrowseItems) :
      LET item == BrowseItems[k]
          at == CallPlaces(events, item.advert_id)
      IN IF item.had_finished_times >= item.limit
           THEN at = {}
           ELSE \E p \in 1..Len(events) :
                  /\ at = {p, p + 2}
                  /\ events[p] = Call("browseAdTaskForFarm", item.advert_id, 0)
                  /\ events[p + 1] = Sleep(item.time)
                  /\ events[p + 2] = Call("browseAdTaskForFarm", item.advert_id, 1)

\* two pending items: the first one's claim brought no pop signal (it failed, or
\* succeeded without one), the second one's did
C9_Witness ==
  /\ BrowseRan
  /\ events = <<Call("browseAdTaskForFarm", 1, 0), Sleep(1), Call("browseAdTaskForFarm", 1, 1),
                Call("browseAdTaskForFarm", 2, 0), Sleep(2), Call("browseAdTaskForFarm", 2, 1),
                PopCall>>

\* the last response of the collection loop carried the daily-limit code
DuckSentinel == wire.t = "json" /\ wire.code = "10"

\* C10: click_duck issues at most 10 attempts, and after a response with the
\* daily-limit code "10" (the first one too) it has left its loop.
C10_DuckBounded ==
  step = "click_duck" =>
    /\ Len(Calls(events)) <= 10
    /\ Len(Calls(events)) = Len(CallsOf(events, "getFullCollectionReward"))
    /\ (DuckSentinel => pc # "duck_loop")

\* the sentinel came on attempt 1
C10_Witness ==
  /\ step = "click_duck"
  /\ DuckSentinel
  /\ events = <<DuckCall>>
  /\ pc = "double_card"

\* the functions each step of run() may call
StepFns ==
  [none |-> {},
   farm |-> {"initForFarm"},
   card |-> {"myCardInfoForFarm"},
   pop |-> {"gotWaterGoalTaskForFarm"},
   task_info |-> {"taskInitForFarm"},
   sign_in |-> {},
   three_meal |-> {"gotThreeMealForFarm"},
   treasure_box |-> {"ddnc_getTreasureBoxAward"},
   browse |-> {"browseAdTaskForFarm", "gotWaterGoalTaskForFarm"},
   water_rain |-> {"waterRainForFarm"},
   water_friend |-> {"friendListInitForFarm", "waterFriendForFarm",
                     "waterFriendGotAwardForFarm"},
   clock_in |-> {"clockInInitForFarm"},
   clock_in_sign |-> {"clockInForFarm", "myCardInfoForFarm", "userMyCardForFarm"},
   follow |-> {"clockInFollowForFarm"},
   click_duck |-> {"getFullCollectionReward"},
   double_card |-> {"initForFarm", "myCardInfoForFarm", "userMyCardForFarm"},
   first_water |-> {"waterGoodForFarm", "firstWaterTaskForFarm", "gotWaterGoalTaskForFarm"},
   total_water |-> {"waterGoodForFarm", "totalWaterTaskForFarm", "gotWaterGoalTaskForFarm"},
   final |-> {"initForFarm"}]

\* the calls of evs are all calls of functions of fns
CallsWithin(evs, fns) == \A j \in 1..Len(evs) : IsCall(evs[j]) => evs[j].fn \in fns

\* evs starts with pre
StartsWith(evs, pre) == Len(pre) <= Len(evs) /\ SubSeq(evs, 1, Len(pre)) = pre

\* the calls of step 10 come as farm re-fetch, card re-fetch, double-card use
DoubleCardOrder ==
  step = "double_card" =>
    Calls(events) \in {<<FarmCall>>, <<FarmCall, CardCall>>,
                       <<FarmCall, CardCall, Call("userMyCardForFarm", 2, 0)>>}

\* C11: the steps of run() follow one another in the fixed order of the list
\* (none is entered before the one before it), the trace of a step only grows
\* while the step lasts, every call in it is a call of that step, and the calls
\* of step 10 come as farm re-fetch, card re-fetch, double-card use.
C11_CallsInStepOrder ==
  [][/\ NextStepOnly
     /\ (step' = step => StartsWith(events', events))
     /\ CallsWithin(events', StepFns[step'])
     /\ DoubleCardOrder']_vars

\* the run is at its ten-waters step, after a first-water step that watered,
\* and has issued a watering call, the claim call and the pop-reward claim
C11_Witness ==
  /\ step = "total_water"
  /\ seen.pop
  /\ seen.waters = MaxWater + 1
  /\ Len(events) > 0
  /\ events[Len(events)] = PopCall

\* the envelopes the Gateway makes up itself
Sentinel == res.ok /\ res.env.code \in {"888", "999"}

\* what request() returned for a body that decoded as JSON
JsonReturned ==
  wire.t = "json" =>
    IF wire.code = "absent"
      THEN res = [ok |-> TRUE, env |-> [code |-> "888", data |-> NoData]]
      ELSE res = [ok |-> TRUE, env |-> [code |-> wire.code, data |-> wire.data]]

\* the caller holding `res` goes on as after a failure: the run returns at a
\* foundational fetch, step 10 uses no card, the first-water claim is not made
FailureArmTaken ==
  /\ pc \in {"farm_data", "task_info_ret", "clock_in_ret"} => pc' = "done"
  /\ pc = "double_card_farm" => (pc' = "first_water" /\ events' = events)
  /\ pc \in {"double_card_card", "first_water_award"} => events' = events

\* C12: for a body that decodes as JSON request() returns {code: "888"} when the
\* object has no `code` and the object itself when it has one; the caller of a
\* request that returned an "888" or "999" envelope never takes its success arm.
C12_SentinelNeverSuccess ==
  [][RequestReturned =>
       /\ JsonReturned
       /\ (Sentinel => ~is_success(res.env) /\ FailureArmTaken)]_vars

\* the watering call of the first-water step got a body without `code`
C12_Witness ==
  /\ pc = "first_water_award"
  /\ wire.t = "json"
  /\ wire.code = "absent"
  /\ res.env.code = "888"

SignCall == Call("clockInForFarm", 0, 1)

\* C13: the clock-in snapshot that run() keeps is the one the fetch returned; the
\* sign-in handler is invoked (its sign call issued) exactly when today_signed
\* is false; and from the sign-in step, skipped, finished or failed, the run
\* goes on to the follow pass, which starts over the snapshot's themes.
C13_SignIffNotSigned ==
  [][/\ (pc = "clock_in_ret" /\ pc' = "clock_in_sign") =>
          /\ clock_in_task'.today_signed = res.env.data.today_signed
          /\ clock_in_task'.themes = res.env.data.themes
     /\ step' = "clock_in_sign" =>
          /\ clock_in_task' = clock_in_task
          /\ (clock_in_task.today_signed <=> CallsOf(events', "clockInForFarm") = <<>>)
          /\ (~clock_in_task.today_signed =>
                events'[1] = SignCall /\ Len(CallsOf(events', "clockInForFarm")) = 1)
          /\ pc' \in {"sign_cards", "follow"}
     /\ pc = "follow" =>
          /\ pc' = "follow_loop"
          /\ step' = "follow"
          /\ task_list' = clock_in_task.themes]_vars

\* the sign call failed, and the follow pass is next, with themes to visit
C13_Witness ==
  /\ pc = "follow"
  /\ step = "clock_in_sign"
  /\ events = <<SignCall>>
  /\ ~clock_in_task.today_signed
  /\ Len(clock_in_task.themes) = MaxThemes

DoubleCardCall == Call("userMyCardForFarm", 2, 0)

\* `res` holds a farm snapshot fetch that returned Ok: the response came and
\* its farmUserPro decoded
FarmFetched == res.ok /\ res.env.data.k = "farm" /\ res.env.data.pro_ok

\* `res` holds a card inventory fetch that returned Ok
CardFetched == res.ok /\ res.env.data.k = "card"

PopSignal(w) == w.t = "json" /\ w.data.k \in {"farm", "award"} /\ w.data.canPop

\* the response w is a successful one (code "0") carrying the pop signal
ClaimSignal(w) == PopSignal(w) /\ w.code = "0"

PopCalls(evs) == Len(SelectSeq(evs, LAMBDA ev : ev = PopCall))

\* what a claim call whose response is w adds to the trace after itself
PopAfter(w) == IF ClaimSignal(w) THEN <<PopCall>> ELSE <<>>

\* C16: the pop-reward claim is issued once at step 5 exactly when the first farm
\* snapshot carried canPop; once after an ad claim, the first-water claim or the
\* ten-waters claim exactly when that claim succeeded and its response carried
\* canPop; nowhere else; and after a pop-reward claim, whatever it met, the
\* handler goes on without issuing it again.
C16_PopIffSignal ==
  [][/\ (pc = "farm_data" /\ pc' = "card_info") => (can_do_pop_task' <=> PopSignal(wire))
     /\ pc = "pop" =>
          /\ events' = (IF can_do_pop_task THEN <<PopCall>> ELSE <<>>)
          /\ pc' = "task_info"
     /\ (pc = "browse_loop" /\ task_list # <<>>) =>
          /\ pc' = "browse_loop"
          /\ task_list' = Tail(task_list)
          /\ IF Head(task_list).had_finished_times >= Head(task_list).limit
               THEN events' = events
               ELSE events' = events
                      \o <<Call("browseAdTaskForFarm", Head(task_list).advert_id, 0),
                           Sleep(Head(task_list).time),
                           Call("browseAdTaskForFarm", Head(task_list).advert_id, 1)>>
                      \o PopAfter(wire')
     /\ pc = "first_water_award" =>
          /\ pc' = "total_water"
          /\ events' = IF wire.t = "json" /\ wire.code = "0"
                         THEN events \o <<Call("firstWaterTaskForFarm", 0, 0)>> \o PopAfter(wire')
                         ELSE events
     /\ (pc = "total_water_loop"
           /\ i >= task_info.total_water_task_init.total_water_task_limit) =>
          /\ pc' = "final"
          /\ events' = events \o <<TotalAwardCall>> \o PopAfter(wire')
     /\ ~(\/ pc \in {"pop", "first_water_award"}
          \/ pc = "browse_loop" /\ task_list # <<>>
          \/ pc = "total_water_loop"
               /\ i >= task_info.total_water_task_init.total_water_task_limit) =>
          PopCalls(events') = (IF step' = step THEN PopCalls(events) ELSE 0)]_vars

\* the ten-waters claim succeeded with the signal, the pop-reward claim followed,
\* and step 5 had issued one too
C16_Witness ==
  /\ pc = "final"
  /\ step = "total_water"
  /\ seen.pop
  /\ ClaimSignal(wire)
  /\ Len(events) >= 2
  /\ events[Len(events) - 1] = TotalAwardCall
  /\ events[Len(events)] = PopCall

\* do_water_friend_task has returned to run()
WaterFriendRan ==
  /\ pc = "clock_in"
  /\ step = "water_friend"
  /\ ~task_info.water_friend_task_init.f

\* the friends of the fetched list that can be watered, in the list's order
Waterable == SelectSeq(wire.data.friends, LAMBDA fr : fr.friend_state # 0)

Min(a, b) == IF a <= b THEN a ELSE b

\* C17: with r = water_friend_max - water_friend_count_key the handler issues no
\* call when r <= 0; when r > 0 and the friend list was fetched it issues, after
\* the list fetch, one friend-water call to each of the first min(r, n) of the n
\* friends with friend_state # 0, in the list's order, and then one aggregate
\* claim call, and nothing else.
C17_FriendWaterCalls ==
  WaterFriendRan =>
    LET r == task_info.water_friend_task_init.water_friend_max
               - task_info.water_friend_task_init.water_friend_count_key
    IN IF r <= 0 THEN Calls(events) = <<>>
       ELSE (wire.t = "json" /\ wire.data.k = "friends") =>
              LET m == Min(r, Len(Waterable))
              IN Calls(events) =
                   <<Call("friendListInitForFarm", 0, 0)>>
                     \o [j \in 1..m |-> Call("waterFriendForFarm", Waterable[j].share_code, 0)]
                     \o <<Call("waterFriendGotAwardForFarm", 0, 0)>>

\* a quota of 1 left, two friends of whom only the second can be watered: one
\* friend-water call, to the second, and the claim
C17_Witness ==
  /\ WaterFriendRan
  /\ task_info.water_friend_task_init.water_friend_count_key = MaxFriendQuota - 1
  /\ wire.t = "json"
  /\ wire.data.k = "friends"
  /\ Len(wire.data.friends) = 2
  /\ wire.data.friends[1].friend_state = 0
  /\ Calls(events) = <<Call("friendListInitForFarm", 0, 0), Call("waterFriendForFarm", 2, 0),
                       Call("waterFriendGotAwardForFarm", 0, 0)>>

\* C18: each pass of the follow loop issues, for the entry it visits, no call
\* when had_got is set, else the follow call (step 1) when had_follow is not set
\* and then the claim call (step 2); and it leaves every later entry of the list
\* to be visited, whatever the calls of this entry met.
C18_FollowPerEntry ==
  [][(pc = "follow_loop" /\ task_list # <<>>) =>
       LET t == Head(task_list)
       IN /\ events' = events
                \o (IF t.had_got THEN <<>>
                    ELSE (IF t.had_follow THEN <<>>
                          ELSE <<Call("clockInFollowForFarm", t.id, 1)>>)
                         \o <<Call("clockInFollowForFarm", t.id, 2)>>)
          /\ task_list' = Tail(task_list)]_vars

\* click_duck has returned and run() has not yet gone on to step 10
DuckLoopLeft == step = "click_duck" /\ pc = "double_card"

\* C19: when no response of the collection loop carried the daily-limit code,
\* the loop has issued exactly 10 attempts by the time it is left, whatever else
\* the attempts met (another code, an "888" or "999" envelope, a send failure).
C19_TenUnlessSentinel ==
  (DuckLoopLeft /\ ~DuckSentinel) =>
    Len(CallsOf(events, "getFullCollectionReward")) = DuckAttempts

SignCardCall == Call("userMyCardForFarm", 1, 0)

\* how many extra-signature card consume calls evs holds
SignUses(evs) == Len(SelectSeq(evs, LAMBDA ev : ev = SignCardCall))

\* do_clock_in_sign_in_task is in its card loop or has just returned
SignHandlerAt == step = "clock_in_sign" /\ events # SkipLog

\* C20: do_clock_in_sign_in_task issues exactly one sign call, first.  When the
\* sign call did not succeed it issues nothing else.  When it succeeded it fetches
\* the card inventory and, with n the inventory's sign_card, issues min(3, n)
\* consume calls when the fetch succeeded and n > 0, and none otherwise: the loop
\* adds one consume call per pass whatever the previous one met, and is left with
\* exactly that many.
C20_SignCardUses ==
  [][/\ SignHandlerAt' =>
          /\ Head(events') = SignCall
          /\ Len(CallsOf(events', "clockInForFarm")) = 1
          /\ Calls(events') = <<SignCall>>
                                \o (IF res'.ok /\ is_success(res'.env) THEN <<CardCall>> ELSE <<>>)
                                \o [j \in 1..SignUses(events') |-> SignCardCall]
          /\ ~(res'.ok /\ is_success(res'.env)) => pc' = "follow" /\ SignUses(events') = 0
     /\ pc' = "sign_cards" =>
          LET card_info == get_card_info(request(wire'))
              n == card_info.sign_card
              use_num == IF card_info.ok /\ n > 0 THEN Min(3, n) ELSE 0
          IN /\ SignUses(events') <= use_num
             /\ (pc = "sign_cards" => SignUses(events') = SignUses(events) + 1)
     /\ (pc = "sign_cards" /\ pc' # "sign_cards") =>
          LET card_info == get_card_info(request(wire))
              n == card_info.sign_card
          IN /\ pc' = "follow"
             /\ events' = events
             /\ SignUses(events) = IF card_info.ok /\ n > 0 THEN Min(3, n) ELSE 0]_vars

\* four cards in the inventory: three consume calls, and the loop is over
C20_Witness ==
  /\ pc = "sign_cards"
  /\ wire.t = "json"
  /\ wire.data.k = "card"
  /\ wire.data.sign_card = 4
  /\ i = count
  /\ Calls(events) = <<SignCall, CardCall, SignCardCall, SignCardCall, SignCardCall>>

FirstAwardCall == Call("firstWaterTaskForFarm", 0, 0)

\* the watering call of do_first_water_task was answered with code "0"
FirstWatered == wire.t = "json" /\ wire.code = "0"

\* C21: do_first_water_task issues exactly one single-water call, first, and
\* then the first-water reward claim call exactly when that watering call was
\* answered with code "0"; after a rejected or failed watering call it issues
\* nothing more.
C21_FirstWaterClaimIffWatered ==
  [][pc = "first_water_award" =>
       /\ events = <<WaterCall>>
       /\ StartsWith(events', <<WaterCall>>)
       /\ Len(CallsOf(events', "waterGoodForFarm")) = 1
       /\ Len(CallsOf(events', "firstWaterTaskForFarm")) = (IF FirstWatered THEN 1 ELSE 0)
       /\ (FirstWatered => events'[2] = FirstAwardCall)
       /\ (~FirstWatered => events' = events)
       /\ pc' = "total_water"]_vars

\* the watering succeeded and the claim call followed it
C21_Witness ==
  /\ step = "first_water"
  /\ pc = "total_water"
  /\ events = <<WaterCall, FirstAwardCall>>

\* do_treasure_box_task has run
TreasureBoxRan == step = "treasure_box" /\ events # SkipLog

\* C22: do_treasure_box_task issues exactly two calls, both to
\* ddnc_getTreasureBoxAward: the acknowledge call (type 1), then a pacing delay,
\* then the confirm call (type 2) with the catalog's `line`; and it does so
\* whatever the acknowledge call met (an answer of any code, an undecodable
\* body, a send failure).
C22_AcknowledgeThenConfirm ==
  TreasureBoxRan =>
    /\ wire \in AnyWire
    /\ Len(events) = 3
    /\ events[1] = Call("ddnc_getTreasureBoxAward", 0, 1)
    /\ events[2] = Sleep(1)
    /\ events[3] = Call("ddnc_getTreasureBoxAward", task_info.treasure_box_init.line, 2)

\* the acknowledge call failed at the send, and the confirm call was issued with
\* the second route token
C22_Witness ==
  /\ TreasureBoxRan
  /\ wire.t = "send_fail"
  /\ Len(events) = 3
  /\ events[3] = Call("ddnc_getTreasureBoxAward", 8, 2)

ThreeMealCall == Call("gotThreeMealForFarm", 0, 0)

\* got_three_meal has run
ThreeMealRan == step = "three_meal" /\ events # SkipLog

\* the local hours of the blocked windows
BlockedHours == {9, 10, 14, 15, 16, 21, 22, 23}

\* C23: at every local hour 0..23 (UTC+8) got_three_meal issues exactly one
\* scheduled-claim call; inside a blocked window (hour >= 21, 9..10, 14..16) it
\* logs the advisory line before the call and outside it logs nothing, and every
\* run of the handler is one of these.
C23_ClaimAtEveryHour ==
  /\ {china_hour(u) : u \in 0..23} = 0..23
  /\ \A h \in 0..23 :
        got_three_meal(h) = (IF h \in BlockedHours THEN <<Log("advice")>> ELSE <<>>)
                              \o <<ThreeMealCall>>
  /\ ThreeMealRan => /\ Calls(events) = <<ThreeMealCall>>
                      /\ \E u \in 0..23 : events = got_three_meal(china_hour(u))

\* a run inside a blocked window: the advisory line, and the call all the same
C23_Witness ==
  /\ ThreeMealRan
  /\ events = <<Log("advice"), ThreeMealCall>>

\* the paced loops: the step each runs in, the call it repeats, its pace in seconds
PacedLoops ==
  {[step |-> "total_water", fn |-> "waterGoodForFarm", pace |-> 1],
   [step |-> "water_friend", fn |-> "waterFriendForFarm", pace |-> 1],
   [step |-> "click_duck", fn |-> "getFullCollectionReward", pace |-> 2],
   [step |-> "clock_in_sign", fn |-> "userMyCardForFarm", pace |-> 2]}

IsCallOf(ev, fn) == ev.e = "call" /\ ev.fn = fn

\* in evs every call of fn that another call of fn follows is followed first by a
\* delay of d seconds, and every delay is one of d seconds that follows a call of fn
Paced(evs, fn, d) ==
  /\ \A j \in 1..Len(evs), k \in 1..Len(evs) :
        (j < k /\ IsCallOf(evs[j], fn) /\ IsCallOf(evs[k], fn)) => evs[j + 1] = Sleep(d)
  /\ \A j \in 1..Len(evs) :
        evs[j].e = "sleep" => j > 1 /\ evs[j] = Sleep(d) /\ IsCallOf(evs[j - 1], fn)

\* the paced loops keep their pace
LoopsPaced == \A l \in PacedLoops : step = l.step => Paced(events, l.fn, l.pace)

\* the steps in which the current step's events hold a delay
SleepsOnlyIn(steps) == (\E j \in 1..Len(events) : events[j].e = "sleep") => step \in steps

\* C24 as stated: the four loops keep their pace, and a run is suspended only at
\* those delays and at the ad-view waits.
C24_PacedLoopsOnlyYields ==
  /\ LoopsPaced
  /\ SleepsOnlyIn({l.step : l \in PacedLoops} \cup {"browse"})

\* C24: in each of the four paced loops any two consecutive calls of the loop are
\* separated by the loop's delay (1 s, 1 s, 2 s, 2 s); and a run sleeps only at
\* those delays, at the ad-view waits and at the one-second pace between the two
\* calls of do_treasure_box_task.
C24_PacedLoopsAndSleeps ==
  /\ LoopsPaced
  /\ SleepsOnlyIn({l.step : l \in PacedLoops} \cup {"browse", "treasure_box"})
  /\ step = "treasure_box" =>
        \A j \in 1..Len(events) :
          events[j].e = "sleep" =>
            /\ events[j] = Sleep(1)
            /\ j = 2
            /\ IsCallOf(events[1], "ddnc_getTreasureBoxAward")
  /\ step = "browse" =>
        \A j \in 1..Len(events) :
          events[j].e = "sleep" =>
            /\ j > 1
            /\ events[j - 1] = Call("browseAdTaskForFarm", events[j - 1].id, 0)

\* two cards used: each use is followed by its two-second delay
C24_Witness ==
  /\ step = "clock_in_sign"
  /\ pc = "follow"
  /\ events = <<SignCall, CardCall, SignCardCall, Sleep(2), SignCardCall, Sleep(2)>>

\* do_water_rain_task read the clock and issued its call
RainCallIssued ==
  /\ step = "water_rain"
  /\ Len(events) = 2
  /\ events[1].e = "clock"
  /\ IsCallOf(events[2], "waterRainForFarm")

\* C25: the hongBaoTimes sent by the water-rain call is (current time in
\* milliseconds mod 5) + 50, a value of 50..54 that follows the clock.
C25_HongBaoFollowsClock ==
  RainCallIssued =>
    /\ events[2].n \in 50..54
    /\ events[2].n = (events[1].n % 5) + 50

\* what the code sends instead: the clock is cut to whole seconds before the
\* remainder is taken, so the value is 50 at every clock reading
HongBaoAlwaysFifty == RainCallIssued => events[2].n = 50

\* C26: whenever run() has returned, it has returned Ok(()): no failure, that of
\* a foundational fetch included, reaches the driver as an error.
C26_RunAlwaysOk == pc = "done" => result = "Ok"

====
